---------------------------- MODULE Spec2Model ----------------------------
(***************************************************************************)
(* Protocol/session layer of CLG-MCP: the bearer-token gate                *)
(* (src/utils/auth.ts), the JSON-RPC method dispatcher (src/mcp/handler),  *)
(* the SSE connection manager and the /sse handlers (src/mcp/sse.ts) and   *)
(* the front door (src/index.ts).                                          *)
(*                                                                         *)
(* Strings are sequences of characters.  The word "Bearer" is one element  *)
(* of the alphabet, " " is the whitespace character and "," the comma.     *)
(* JavaScript's undefined, null and "" are all falsy and the code only     *)
(* ever tests these values for truthiness, so all three are the empty      *)
(* sequence.                                                               *)
(***************************************************************************)
EXTENDS Integers, Sequences, FiniteSets, TLC

VARIABLES
    env,          \* Env: MCP_AUTH_TOKEN, MCP_AUTH_TOKENS (fixed for a run)
    authCall,     \* last call of authenticateRequestMultiKey made on its own
    dispatchCall, \* last call of handleMCPRequestInternal made on its own
    now,          \* Date.now()
    connections,  \* SSEConnectionManager.connections: id -> SSEConnection
    sinks,        \* the TransformStream writers, in order of creation
    handlers,     \* POST handlers suspended in their dispatch
    reply,        \* the HTTP reply the worker is returning
    limiter       \* KVRateLimiter: the CACHE namespace and the checkLimit calls

(***************************************************************************)
(* Bounds of the model.                                                    *)
(***************************************************************************)
MaxHeaderLen == 4
MaxTokenLen == 2
MaxTokensLen == 4
MaxTicks == 2
MaxOpens == 2
MaxRouteOpens == 1
MaxReqId == 2
MaxInFlight == 1
MaxConcurrent == 2
MaxFrames == 2
RandSpace == 2
MaxCalls == 2
MaxAllowed == 31

\* SSEConnectionManager.heartbeatInterval, in ms.
HeartbeatInterval == 30000

(***************************************************************************)
(* Strings.                                                                *)
(***************************************************************************)
HeaderChars == {"Bearer", " ", "x", ","}
SecretChars == {" ", "x", ","}

StringsUpTo(chars, n) == UNION {[1..k -> chars] : k \in 0..n}

Headers == StringsUpTo(HeaderChars, MaxHeaderLen)

\* JavaScript truthiness of a string (or of undefined/null).
Truthy(s) == s # <<>>

IsSpace(c) == c = " "

\* Number of leading whitespace characters of s.
RECURSIVE LeadingSpaces(_)
LeadingSpaces(s) ==
    IF s = <<>> \/ ~IsSpace(Head(s)) THEN 0 ELSE 1 + LeadingSpaces(Tail(s))

\* Number of trailing whitespace characters of s.
RECURSIVE TrailingSpaces(_)
TrailingSpaces(s) ==
    IF s = <<>> \/ ~IsSpace(s[Len(s)]) THEN 0
    ELSE 1 + TrailingSpaces(SubSeq(s, 1, Len(s) - 1))

\* String.prototype.trim
Trim(s) ==
    LET l == LeadingSpaces(s)
    IN  IF l = Len(s) THEN <<>>
        ELSE SubSeq(s, l + 1, Len(s) - TrailingSpaces(s))

\* String.prototype.split(','): the pieces between the commas, empty
\* pieces included.
RECURSIVE SplitComma(_)
SplitComma(s) ==
    IF \A i \in 1..Len(s) : s[i] # ","
    THEN <<s>>
    ELSE LET i == CHOOSE j \in 1..Len(s) :
                      s[j] = "," /\ \A k \in 1..(j - 1) : s[k] # ","
         IN  <<SubSeq(s, 1, i - 1)>> \o SplitComma(SubSeq(s, i + 1, Len(s)))

\* authHeader.match(/^Bearer\s+(.+)$/): matched, and the capture group.
\* \s+ is greedy and gives one character back when nothing else is left
\* for (.+).
BearerMatch(h) ==
    IF h = <<>> \/ Head(h) # "Bearer"
    THEN [matched |-> FALSE, token |-> <<>>]
    ELSE LET rest == Tail(h)
             k == LeadingSpaces(rest)
         IN  IF k = 0 THEN [matched |-> FALSE, token |-> <<>>]
             ELSE IF k < Len(rest)
                  THEN [matched |-> TRUE,
                        token |-> SubSeq(rest, k + 1, Len(rest))]
             ELSE IF k >= 2
                  THEN [matched |-> TRUE, token |-> <<rest[k]>>]
             ELSE [matched |-> FALSE, token |-> <<>>]

(***************************************************************************)
(* AuthGate (src/utils/auth.ts).                                           *)
(***************************************************************************)
MissingHeader == "Missing Authorization header"
InvalidFormat == "Invalid Authorization header format. Expected: Bearer <token>"
InvalidToken == "Invalid authentication token"

Authorized == [isAuthenticated |-> TRUE]
Denied(reason) == [isAuthenticated |-> FALSE, error |-> reason]

\* A gate that asks for the header before it looks at the configuration.
authenticateRequest_HeaderFirst(authHeader, e) ==
    LET expectedToken == e.MCP_AUTH_TOKEN
        tokenMatch == BearerMatch(authHeader)
    IN  IF ~Truthy(authHeader) THEN Denied(MissingHeader)
        ELSE IF ~Truthy(expectedToken) THEN Authorized
        ELSE IF ~tokenMatch.matched THEN Denied(InvalidFormat)
        ELSE IF tokenMatch.token # expectedToken THEN Denied(InvalidToken)
        ELSE Authorized

authenticateRequest(authHeader, e) ==
    LET expectedToken == e.MCP_AUTH_TOKEN
        tokenMatch == BearerMatch(authHeader)
    IN  IF ~Truthy(expectedToken) THEN Authorized
        ELSE IF ~Truthy(authHeader) THEN Denied(MissingHeader)
        ELSE IF ~tokenMatch.matched THEN Denied(InvalidFormat)
        ELSE IF tokenMatch.token # expectedToken THEN Denied(InvalidToken)
        ELSE Authorized

authenticateRequestMultiKey(authHeader, e) ==
    LET singleTokenResult == authenticateRequest(authHeader, e)
        tokenMatch == BearerMatch(authHeader)
        split == SplitComma(e.MCP_AUTH_TOKENS)
        validTokens == [i \in 1..Len(split) |-> Trim(split[i])]
    IN  IF singleTokenResult.isAuthenticated \/ ~Truthy(e.MCP_AUTH_TOKENS)
        THEN singleTokenResult
        ELSE IF ~Truthy(authHeader) THEN Denied(MissingHeader)
        ELSE IF ~tokenMatch.matched THEN Denied(InvalidFormat)
        ELSE IF \E i \in 1..Len(validTokens) : validTokens[i] = tokenMatch.token
             THEN Authorized
        ELSE Denied(InvalidToken)

Envs ==
    [MCP_AUTH_TOKEN : StringsUpTo(SecretChars, MaxTokenLen),
     MCP_AUTH_TOKENS : StringsUpTo(SecretChars, MaxTokensLen)]

NoAuthCall == [done |-> FALSE]
\* No rate limiter is constructed.
NoLimiter == [constructed |-> FALSE]
NoDispatchCall == [done |-> FALSE]

vars == <<env, authCall, dispatchCall, now, connections, sinks, handlers, reply,
          limiter>>
serverVars == <<now, connections, sinks, handlers, reply>>

(***************************************************************************)
(* Requests and the method dispatcher (handleMCPRequestInternal).          *)
(***************************************************************************)
ParseErrorCode == -32700
MethodNotFoundCode == -32601
InternalErrorCode == -32603
ConnectionNotFoundCode == -32001

\* The descriptors handleToolsList returns, in its order (the name of each;
\* description and inputSchema are left out).
ToolDescriptors ==
    <<[name |-> "search_genealogy_resources"],
      [name |-> "browse_categories"],
      [name |-> "get_resource_details"],
      [name |-> "filter_resources"],
      [name |-> "get_location_resources"]>>

\* The names of the published tools.
ToolNames == {ToolDescriptors[i].name : i \in DOMAIN ToolDescriptors}

\* The case labels of the switch in handleToolCallWrapper.
ToolCases ==
    {"search_genealogy_resources", "browse_categories", "get_resource_details",
     "filter_resources", "get_location_resources"}

None == "none"

\* An object with one more key.
With(obj, key, val) == (key :> val) @@ obj

Has(obj, key) == key \in DOMAIN obj

\* The provider function of a known tool returns a value or throws.
ProviderOutcomes == {"returns", "throws"}
ProviderValue == "resources"
ProviderMessage == "Network error while fetching data"

\* What a call of the dispatcher comes to: the MCPResponse it returns, or
\* the exception it lets escape, and the provider function it invoked.
Returned(response, tool) ==
    [threw |-> FALSE, response |-> response, called |-> tool]
Threw(message) ==
    [threw |-> TRUE, message |-> message, called |-> None]

\* A Response that carries a result next to its error.
ErrorResponse_WithResult(request, code, message) ==
    [jsonrpc |-> "2.0", id |-> request.id, result |-> <<>>,
     error |-> [code |-> code, message |-> message]]

ResultResponse(request, result) ==
    [jsonrpc |-> "2.0", id |-> request.id, result |-> result]
ErrorResponse(request, code, message) ==
    [jsonrpc |-> "2.0", id |-> request.id,
     error |-> [code |-> code, message |-> message]]

handleInitialize(request) ==
    ResultResponse(request,
        [protocolVersion |-> "2024-11-05",
         capabilities |-> {"tools", "resources"},
         serverInfo |-> [name |-> "clg-mcp", version |-> "1.0.0"]])

handleInitialized(request) == ResultResponse(request, <<>>)

\* A catalog that lists one tool twice and leaves one out.
handleToolsList_Duplicate(request) ==
    ResultResponse(request,
        [tools |-> [ToolDescriptors EXCEPT ![4] = ToolDescriptors[1]]])

handleToolsList(request) ==
    ResultResponse(request, [tools |-> ToolDescriptors])

\* A wrapper without the try around the provider call: what the provider
\* throws leaves the dispatcher.
handleToolCallWrapper_NoCatch(request, outcome) ==
    IF ~Has(request, "params")
    THEN Threw("Cannot destructure property 'name' of 'request.params'")
    ELSE LET name == IF Has(request.params, "name")
                     THEN request.params.name ELSE "undefined"
         IN  IF name \in ToolCases
             THEN IF outcome = "returns"
                  THEN Returned(
                           ResultResponse(request,
                               [content |-> <<[type |-> "text",
                                               text |-> ProviderValue]>>]),
                           name)
                  ELSE [threw |-> TRUE, message |-> ProviderMessage,
                        called |-> name]
             ELSE [threw |-> TRUE, message |-> "Unknown tool", called |-> None]

\* A wrapper that hands any tool name to a provider function instead of
\* rejecting the names it does not publish.
handleToolCallWrapper_AnyName(request, outcome) ==
    IF ~Has(request, "params")
    THEN Threw("Cannot destructure property 'name' of 'request.params'")
    ELSE LET name == IF Has(request.params, "name")
                     THEN request.params.name ELSE "undefined"
         IN  IF outcome = "returns"
             THEN Returned(
                      ResultResponse(request,
                          [content |-> <<[type |-> "text",
                                          text |-> ProviderValue]>>]),
                      name)
             ELSE Returned(
                      ErrorResponse(request, InternalErrorCode,
                          <<"Tool execution failed: ", ProviderMessage>>),
                      name)

\* const { name, arguments: args } = request.params stands before the try:
\* with params undefined it throws a TypeError out of the function.  A
\* params object without a name gives name = undefined, the default branch.
handleToolCallWrapper(request, outcome) ==
    IF ~Has(request, "params")
    THEN Threw("Cannot destructure property 'name' of 'request.params'")
    ELSE LET name == IF Has(request.params, "name")
                     THEN request.params.name ELSE "undefined"
         IN  IF name \in ToolCases
             THEN IF outcome = "returns"
                  THEN Returned(
                           ResultResponse(request,
                               [content |-> <<[type |-> "text",
                                               text |-> ProviderValue]>>]),
                           name)
                  ELSE Returned(
                           ErrorResponse(request, InternalErrorCode,
                               <<"Tool execution failed: ", ProviderMessage>>),
                           name)
             ELSE Returned(
                      ErrorResponse(request, InternalErrorCode,
                          <<"Tool execution failed: ", "Unknown tool: ", name>>),
                      None)

\* A dispatcher whose default branch hands the request to the tool wrapper.
handleMCPRequestInternal_Fallthrough(mcpRequest, outcome) ==
    CASE mcpRequest.method = "initialize" ->
            Returned(handleInitialize(mcpRequest), None)
      [] mcpRequest.method = "initialized" ->
            Returned(handleInitialized(mcpRequest), None)
      [] mcpRequest.method = "tools/list" ->
            Returned(handleToolsList(mcpRequest), None)
      [] OTHER ->
            handleToolCallWrapper(mcpRequest, outcome)

handleMCPRequestInternal(mcpRequest, outcome) ==
    CASE mcpRequest.method = "initialize" ->
            Returned(handleInitialize(mcpRequest), None)
      [] mcpRequest.method = "initialized" ->
            Returned(handleInitialized(mcpRequest), None)
      [] mcpRequest.method = "tools/list" ->
            Returned(handleToolsList(mcpRequest), None)
      [] mcpRequest.method = "tools/call" ->
            handleToolCallWrapper(mcpRequest, outcome)
      [] OTHER ->
            Returned(ErrorResponse(mcpRequest, MethodNotFoundCode,
                                   "Method not found"), None)

\* processSSEMCPRequest: the dispatcher's response tagged for the stream
\* (the timestamp key of the payload is left out).
processSSEMCPRequest(request, outcome) ==
    LET mcpRequest ==
            IF Has(request, "params")
            THEN [jsonrpc |-> request.jsonrpc, id |-> request.id,
                  method |-> request.method, params |-> request.params]
            ELSE [jsonrpc |-> request.jsonrpc, id |-> request.id,
                  method |-> request.method]
        d == handleMCPRequestInternal(mcpRequest, outcome)
    IN  IF d.threw THEN d
        ELSE Returned(
                 With(With(d.response, "protocol", "sse"),
                      "connectionId",
                      IF Has(request, "connectionId")
                      THEN request.connectionId ELSE <<>>),
                 d.called)

(***************************************************************************)
(* Inputs of the worker.                                                   *)
(***************************************************************************)
\* Configurations of the deployed worker: one secret, a list only, one
\* secret and a list.
ServerEnvs ==
    {[MCP_AUTH_TOKEN |-> <<"x">>, MCP_AUTH_TOKENS |-> <<>>],
     [MCP_AUTH_TOKEN |-> <<>>, MCP_AUTH_TOKENS |-> <<"x">>],
     [MCP_AUTH_TOKEN |-> <<"x">>, MCP_AUTH_TOKENS |-> <<"x", "x">>]}

\* Authorization headers a client sends: none, not a Bearer header, and
\* Bearer headers with the tokens "x" and "xx".
ServerHeaders ==
    {<<>>, <<"x">>, <<"Bearer", " ", "x">>, <<"Bearer", " ", "x", "x">>}

ReqIds == 0..MaxReqId
Methods == {"initialize", "initialized", "tools/list", "tools/call",
            "resources/list"}
\* params objects: naming a published tool, naming an unknown one, and
\* without a name.
ParamsObjects ==
    {[name |-> n] : n \in ToolNames \cup {"nonexistent_tool"}}
    \cup {[arguments |-> "args"]}

\* The JSON-RPC envelopes: without and with params.
Requests ==
    LET bare == {[jsonrpc |-> "2.0", id |-> i, method |-> m] :
                     i \in ReqIds, m \in Methods}
    IN  bare \cup {With(r, "params", p) : r \in bare, p \in ParamsObjects}

\* A request body: text that JSON.parse accepts, with the value it parses
\* to, or text that it rejects.
Unparsable == [json |-> FALSE, text |-> "not json"]
JsonBody(value) == [json |-> TRUE, value |-> value]

\* The requests sent to the worker: a call of a published tool, a call of
\* an unknown tool, a call without params, a handshake and a method the
\* dispatcher does not know.
ServerRequests ==
    {[jsonrpc |-> "2.0", id |-> 1, method |-> "tools/call",
      params |-> [name |-> "search_genealogy_resources"]],
     [jsonrpc |-> "2.0", id |-> 2, method |-> "tools/call",
      params |-> [name |-> "nonexistent_tool"]],
     [jsonrpc |-> "2.0", id |-> 1, method |-> "tools/call"],
     [jsonrpc |-> "2.0", id |-> 2, method |-> "initialize"],
     [jsonrpc |-> "2.0", id |-> 1, method |-> "resources/list"]}

Rand == 0..(RandSpace - 1)

\* The values of Math.random() matter only by which of them are equal: a
\* draw is a suffix drawn before, or the least one not drawn yet.
UsedRand == {sinks[k].connectionId[3] : k \in 1..Len(sinks)}
RandDraws == {r \in Rand : r <= Cardinality(UsedRand)}

\* `conn_${Date.now()}_${Math.random().toString(36).substr(2, 9)}`
ConnectionId(time, rnd) == <<"conn", time, rnd>>

InvalidConnectionId == <<"invalid_connection_id">>

\* The ids the server has issued so far: every stream was created for one.
IssuedIds == {sinks[k].connectionId : k \in 1..Len(sinks)}

\* The bodies sent to POST /: text that does not parse, and the requests.
DefaultBodies == {Unparsable} \cup {JsonBody(r) : r \in ServerRequests}

\* The bodies sent to POST /sse: those, and the requests addressed to a
\* connection id the server has issued or to one it never issued.
SSEBodies ==
    DefaultBodies
    \cup {JsonBody(With(r, "connectionId", c)) :
              r \in ServerRequests, c \in IssuedIds \cup {InvalidConnectionId}}

NoReply == [status |-> 0]

ServerInit ==
    /\ now = 0
    /\ connections = <<>>
    /\ sinks = <<>>
    /\ handlers = [k \in 1..MaxInFlight |-> [pc |-> "idle"]]
    /\ reply = NoReply

(***************************************************************************)
(* SSEConnectionManager and the stream writers (src/mcp/sse.ts).           *)
(*                                                                         *)
(* A sink is the writer of one TransformStream.  It is "open" while the    *)
(* client reads, "broken" once the client is gone, "rejecting" when the    *)
(* client went away with the welcome write still pending (the write's      *)
(* catch handler has yet to run), and "closed" after writer.close().       *)
(* frames are the writes the open writer accepted, in order.  A write to   *)
(* a writer that is not open fails: as an exception thrown by write        *)
(* ("throw"), which the controller's enqueue catches, or as a rejected     *)
(* promise ("reject"), which nothing observes.                             *)
(*                                                                         *)
(* The manager's operations work on st = [connections, sinks].             *)
(***************************************************************************)
WriteFailures == {"throw", "reject"}

Registry == [connections |-> connections, sinks |-> sinks]

Without(f, x) == [y \in DOMAIN f \ {x} |-> f[y]]

addConnection(st, id, controller, time) ==
    [st EXCEPT !.connections =
        (id :> [id |-> id, controller |-> controller,
                createdAt |-> time, lastActivity |-> time]) @@ @]

removeConnection(st, id) == [st EXCEPT !.connections = Without(@, id)]

\* An update that sets lastActivity back to the start of the clock.
updateActivity_Reset(st, id, time) ==
    IF id \in DOMAIN st.connections
    THEN [st EXCEPT !.connections[id].lastActivity = 0]
    ELSE st

getConnection(st, id) ==
    IF id \in DOMAIN st.connections
    THEN [found |-> TRUE, connection |-> st.connections[id]]
    ELSE [found |-> FALSE]

updateActivity(st, id, time) ==
    IF id \in DOMAIN st.connections
    THEN [st EXCEPT !.connections[id].lastActivity = time]
    ELSE st

\* controller.enqueue of the connection created with sink k: write, and on
\* an exception remove the connection the sink was created for.
controllerEnqueue(st, k, frame, failure) ==
    IF st.sinks[k].state = "open"
    THEN [st EXCEPT !.sinks[k].frames = Append(@, frame)]
    ELSE IF failure = "throw"
         THEN removeConnection(st, st.sinks[k].connectionId)
         ELSE st

\* controller.close: writer.close().
controllerClose(st, k) ==
    IF st.sinks[k].state = "open"
    THEN [st EXCEPT !.sinks[k].state = "closed"]
    ELSE st

IdleTimeout == HeartbeatInterval * 3

ClockStep == IdleTimeout

\* A sweep that counts a connection idle once it reaches the timeout.
IsIdle_AtTimeout(connection, time) ==
    time - connection.lastActivity >= IdleTimeout

IsIdle(connection, time) == time - connection.lastActivity > IdleTimeout

\* cleanup(): every connection idle for more than 3 heartbeat intervals is
\* closed and deleted.  The iterations touch different entries, so their
\* order does not matter.
RECURSIVE cleanupFrom(_, _, _)
cleanupFrom(st, ids, time) ==
    IF ids = {} THEN st
    ELSE LET id == CHOOSE i \in ids : TRUE
             connection == st.connections[id]
             st1 == IF IsIdle(connection, time)
                    THEN [controllerClose(st, connection.controller)
                             EXCEPT !.connections = Without(@, id)]
                    ELSE st
         IN  cleanupFrom(st1, ids \ {id}, time)

cleanup(st, time) == cleanupFrom(st, DOMAIN st.connections, time)

\* The frames are the SSEMessage objects handed to formatSSEMessage; the
\* timestamp keys of their payloads are left out.
HeartbeatFrame == [event |-> "heartbeat"]

\* sendHeartbeat(): enqueue, then updateActivity, for every entry.  The
\* controller's enqueue never throws, so the catch of the loop is dead.
RECURSIVE sendHeartbeatFrom(_, _, _, _)
sendHeartbeatFrom(st, ids, failure, time) ==
    IF ids = {} THEN st
    ELSE LET id == CHOOSE i \in ids : TRUE
             st1 == controllerEnqueue(st, st.connections[id].controller,
                                      HeartbeatFrame, failure[id])
         IN  sendHeartbeatFrom(updateActivity(st1, id, time), ids \ {id},
                               failure, time)

sendHeartbeat(st, failure, time) ==
    sendHeartbeatFrom(st, DOMAIN st.connections, failure, time)

WelcomeFrame(connectionId) ==
    [event |-> "connected", id |-> "0",
     data |-> [connectionId |-> connectionId, protocol |-> "sse"]]

\* A stream on which a heartbeat is written before the welcome frame.
createSSEResponse_HeartbeatFirst(st, time, rnd) ==
    LET connectionId == ConnectionId(time, rnd)
        k == Len(st.sinks) + 1
        st1 == [st EXCEPT !.sinks =
                   Append(@, [connectionId |-> connectionId, state |-> "open",
                              frames |-> <<HeartbeatFrame,
                                           WelcomeFrame(connectionId)>>])]
    IN  addConnection(st1, connectionId, k, time)

\* createSSEResponse(): a new stream, registered under a new id, with the
\* welcome frame written first.
createSSEResponse(st, time, rnd) ==
    LET connectionId == ConnectionId(time, rnd)
        k == Len(st.sinks) + 1
        st1 == [st EXCEPT !.sinks =
                   Append(@, [connectionId |-> connectionId, state |-> "open",
                              frames |-> <<WelcomeFrame(connectionId)>>])]
    IN  addConnection(st1, connectionId, k, time)

ResponseFrame(response) ==
    [event |-> "mcp-response", id |-> response.id, data |-> response]

\* A delivery to the sink created first, whatever session the request names.
sendSSEMessage_FirstSink(st, connectionId, response, failure, time) ==
    LET c == getConnection(st, connectionId)
    IN  IF ~c.found THEN [st |-> st, sent |-> FALSE]
        ELSE [st |-> updateActivity(
                         controllerEnqueue(st, 1, ResponseFrame(response),
                                           failure),
                         connectionId, time),
              sent |-> TRUE]

\* sendSSEMessage(connectionId, response): the registry after it, and the
\* boolean it returns.
sendSSEMessage(st, connectionId, response, failure, time) ==
    LET c == getConnection(st, connectionId)
    IN  IF ~c.found THEN [st |-> st, sent |-> FALSE]
        ELSE [st |-> updateActivity(
                         controllerEnqueue(st, c.connection.controller,
                                           ResponseFrame(response), failure),
                         connectionId, time),
              sent |-> TRUE]

\* The frames a sink holds in the model: MaxFrames with one handler, and one
\* more for every further handler that can be in flight.
FrameCap == MaxFrames + Len(handlers) - 1

\* Whether the sink connectionId resolves to has room for one more frame.
HasRoom(connectionId) ==
    connectionId \in DOMAIN connections
        => Len(sinks[connections[connectionId].controller].frames) < FrameCap

(***************************************************************************)
(* The worker (src/index.ts fetch, src/mcp/sse.ts handleSSERequest).       *)
(*                                                                         *)
(* A POST handler runs up to its first suspension that matters, the        *)
(* dispatch, in one step (the gate is a pure function of the request and   *)
(* the fixed configuration, so the body read before the parse adds no      *)
(* interleaving), and from the end of the dispatch to its reply in a       *)
(* second step.                                                            *)
(***************************************************************************)
NoBody == [none |-> TRUE]

\* An HTTP reply with the request it answers and what the handler did to
\* produce it: the AuthResult of the gate, whether it called the
\* dispatcher, and the provider function the dispatcher invoked.
Reply(method, path, request, auth, status, json, dispatched, called) ==
    [method |-> method, path |-> path, request |-> request, auth |-> auth,
     status |-> status, json |-> json, dispatched |-> dispatched,
     called |-> called]

\* The request of a reply: its Authorization header and its body.
Req(header, body) == [header |-> header, body |-> body]

createUnauthorizedResponse(method, path, request, auth) ==
    Reply(method, path, request, auth, 401,
          [error |-> "Unauthorized",
           message |-> IF Has(auth, "error") /\ auth.error # ""
                       THEN auth.error ELSE "Unauthorized"],
          FALSE, None)

SetRegistry(st) ==
    /\ connections' = st.connections
    /\ sinks' = st.sinks

IdleSlots == {k \in DOMAIN handlers : handlers[k].pc = "idle"}
FirstIdleSlot == CHOOSE k \in IdleSlots : \A j \in IdleSlots : k <= j

Suspend(path, auth, body) ==
    /\ IdleSlots # {}
    /\ handlers' = [handlers EXCEPT ![FirstIdleSlot] =
                       [pc |-> "dispatch", path |-> path, auth |-> auth,
                        body |-> body]]

\* A GET /sse that opens the stream without asking the gate's answer.
GetSSE_NoGate(header, rnd, maxOpens) ==
    LET auth == authenticateRequestMultiKey(header, env)
    IN  /\ reply = NoReply
        /\ Len(sinks) < maxOpens
        /\ SetRegistry(createSSEResponse(Registry, now, rnd))
        /\ reply' = Reply("GET", "/sse", Req(header, NoBody), auth,
                          200, [stream |-> Len(sinks) + 1], FALSE, None)
        /\ UNCHANGED <<limiter, env, authCall, dispatchCall, now, handlers>>

\* GET /sse: handleSSERequest, GET branch.  The model opens at most maxOpens
\* streams in a run.
GetSSE(header, rnd, maxOpens) ==
    LET auth == authenticateRequestMultiKey(header, env)
    IN  /\ reply = NoReply
        /\ IF ~auth.isAuthenticated
           THEN /\ reply' = createUnauthorizedResponse("GET", "/sse",
                                      Req(header, NoBody), auth)
                /\ UNCHANGED <<limiter, env, authCall, dispatchCall, now, connections, sinks,
                               handlers>>
           ELSE /\ Len(sinks) < maxOpens
                /\ SetRegistry(createSSEResponse(Registry, now, rnd))
                /\ reply' = Reply("GET", "/sse", Req(header, NoBody), auth,
                                  200, [stream |-> Len(sinks) + 1], FALSE,
                                  None)
                /\ UNCHANGED <<limiter, env, authCall, dispatchCall, now, handlers>>

\* A POST /sse that goes on to the dispatch without looking the connection
\* up.
PostSSE_NoLookup(header, body) ==
    LET auth == authenticateRequestMultiKey(header, env)
        sseRequest == body.value
        addressed == Has(sseRequest, "connectionId")
                        /\ Truthy(sseRequest.connectionId)
    IN  /\ reply = NoReply
        /\ IF ~auth.isAuthenticated
           THEN /\ reply' = createUnauthorizedResponse("POST", "/sse",
                                      Req(header, NoBody), auth)
                /\ UNCHANGED <<limiter, env, authCall, dispatchCall, now, connections,
                               sinks, handlers>>
           ELSE IF ~body.json
           THEN /\ reply' = Reply("POST", "/sse", Req(header, body), auth,
                                  400, [error |-> "Invalid JSON",
                                   code |-> ParseErrorCode], FALSE, None)
                /\ UNCHANGED <<limiter, env, authCall, dispatchCall, now, connections,
                               sinks, handlers>>
           ELSE /\ Suspend("/sse", auth, body)
                /\ SetRegistry(IF addressed
                               THEN updateActivity(Registry,
                                                   sseRequest.connectionId, now)
                               ELSE Registry)
                /\ UNCHANGED <<limiter, env, authCall, dispatchCall, now, reply>>

\* POST /sse up to the dispatch: gate, parse, connection lookup, touch.
PostSSE(header, body) ==
    LET auth == authenticateRequestMultiKey(header, env)
        sseRequest == body.value
        addressed == Has(sseRequest, "connectionId")
                        /\ Truthy(sseRequest.connectionId)
    IN  /\ reply = NoReply
        /\ IF ~auth.isAuthenticated
           THEN /\ reply' = createUnauthorizedResponse("POST", "/sse",
                                      Req(header, NoBody), auth)
                /\ UNCHANGED <<limiter, env, authCall, dispatchCall, now, connections, sinks,
                               handlers>>
           ELSE IF ~body.json
           THEN /\ reply' = Reply("POST", "/sse", Req(header, body), auth,
                                  400, [error |-> "Invalid JSON",
                                   code |-> ParseErrorCode], FALSE, None)
                /\ UNCHANGED <<limiter, env, authCall, dispatchCall, now, connections, sinks,
                               handlers>>
           ELSE IF addressed
                   /\ ~getConnection(Registry, sseRequest.connectionId).found
           THEN /\ reply' = Reply("POST", "/sse", Req(header, body), auth,
                                  400, [error |-> "Connection not found",
                                   code |-> ConnectionNotFoundCode], FALSE, None)
                /\ UNCHANGED <<limiter, env, authCall, dispatchCall, now, connections, sinks,
                               handlers>>
           ELSE /\ Suspend("/sse", auth, body)
                /\ SetRegistry(IF addressed
                               THEN updateActivity(Registry,
                                                   sseRequest.connectionId, now)
                               ELSE Registry)
                /\ UNCHANGED <<limiter, env, authCall, dispatchCall, now, reply>>

\* A handler that delivers only once the handlers in the slots before its
\* own are through.
PostSSEDone_InTurn(k, outcome, failure) ==
    /\ reply = NoReply
    /\ \A j \in DOMAIN handlers : j < k => handlers[j].pc # "dispatch"
    /\ handlers[k].pc = "dispatch"
    /\ handlers[k].path = "/sse"
    /\ LET request == [body |-> handlers[k].body]
           auth == handlers[k].auth
           body == handlers[k].body
           sseRequest == body.value
           addressed == Has(sseRequest, "connectionId")
                           /\ Truthy(sseRequest.connectionId)
           d == processSSEMCPRequest(sseRequest, outcome)
       IN  IF d.threw
           THEN /\ reply' = Reply("POST", "/sse", request, auth, 500,
                                  [error |-> "Internal server error",
                                   code |-> InternalErrorCode,
                                   message |-> d.message], TRUE, d.called)
                /\ UNCHANGED <<connections, sinks>>
           ELSE IF addressed
           THEN /\ HasRoom(sseRequest.connectionId)
                /\ SetRegistry(sendSSEMessage(Registry,
                                              sseRequest.connectionId,
                                              d.response, failure, now).st)
                /\ reply' = Reply("POST", "/sse", request, auth, 200,
                                  [status |-> "sent"], TRUE, d.called)
           ELSE /\ reply' = Reply("POST", "/sse", request, auth, 200,
                                  d.response, TRUE, d.called)
                /\ UNCHANGED <<connections, sinks>>
    /\ handlers' = [handlers EXCEPT ![k] = [pc |-> "idle"]]
    /\ UNCHANGED <<limiter, env, authCall, dispatchCall, now>>

\* A handler that also pushes the Response of a request without connection
\* id onto the stream created first.
PostSSEDone_Push(k, outcome, failure) ==
    /\ reply = NoReply
    /\ handlers[k].pc = "dispatch"
    /\ handlers[k].path = "/sse"
    /\ LET request == [body |-> handlers[k].body]
           auth == handlers[k].auth
           body == handlers[k].body
           sseRequest == body.value
           addressed == Has(sseRequest, "connectionId")
                           /\ Truthy(sseRequest.connectionId)
           d == processSSEMCPRequest(sseRequest, outcome)
       IN  IF d.threw
           THEN /\ reply' = Reply("POST", "/sse", request, auth, 500,
                                  [error |-> "Internal server error",
                                   code |-> InternalErrorCode,
                                   message |-> d.message], TRUE, d.called)
                /\ UNCHANGED <<connections, sinks>>
           ELSE IF addressed
           THEN /\ HasRoom(sseRequest.connectionId)
                /\ SetRegistry(sendSSEMessage(Registry,
                                              sseRequest.connectionId,
                                              d.response, failure, now).st)
                /\ reply' = Reply("POST", "/sse", request, auth, 200,
                                  [status |-> "sent"], TRUE, d.called)
           ELSE /\ reply' = Reply("POST", "/sse", request, auth, 200,
                                  d.response, TRUE, d.called)
                /\ IF sinks # <<>> /\ Len(sinks[1].frames) < FrameCap
                   THEN SetRegistry(controllerEnqueue(Registry, 1,
                                        ResponseFrame(d.response), failure))
                   ELSE UNCHANGED <<connections, sinks>>
    /\ handlers' = [handlers EXCEPT ![k] = [pc |-> "idle"]]
    /\ UNCHANGED <<limiter, env, authCall, dispatchCall, now>>

\* POST /sse from the end of the dispatch: deliver, reply.
PostSSEDone(k, outcome, failure) ==
    /\ reply = NoReply
    /\ handlers[k].pc = "dispatch"
    /\ handlers[k].path = "/sse"
    /\ LET request == [body |-> handlers[k].body]
           auth == handlers[k].auth
           body == handlers[k].body
           sseRequest == body.value
           addressed == Has(sseRequest, "connectionId")
                           /\ Truthy(sseRequest.connectionId)
           d == processSSEMCPRequest(sseRequest, outcome)
       IN  IF d.threw
           THEN /\ reply' = Reply("POST", "/sse", request, auth, 500,
                                  [error |-> "Internal server error",
                                   code |-> InternalErrorCode,
                                   message |-> d.message], TRUE, d.called)
                /\ UNCHANGED <<connections, sinks>>
           ELSE IF addressed
           THEN /\ HasRoom(sseRequest.connectionId)
                /\ SetRegistry(sendSSEMessage(Registry,
                                              sseRequest.connectionId,
                                              d.response, failure, now).st)
                /\ reply' = Reply("POST", "/sse", request, auth, 200,
                                  [status |-> "sent"], TRUE, d.called)
           ELSE /\ reply' = Reply("POST", "/sse", request, auth, 200,
                                  d.response, TRUE, d.called)
                /\ UNCHANGED <<connections, sinks>>
    /\ handlers' = [handlers EXCEPT ![k] = [pc |-> "idle"]]
    /\ UNCHANGED <<limiter, env, authCall, dispatchCall, now>>

\* POST /: fetch and handleMCPRequest up to the dispatch.
PostDefault(header, body) ==
    LET auth == authenticateRequestMultiKey(header, env)
    IN  /\ reply = NoReply
        /\ IF ~auth.isAuthenticated
           THEN /\ reply' = createUnauthorizedResponse("POST", "/",
                                      Req(header, NoBody), auth)
                /\ UNCHANGED <<limiter, env, authCall, dispatchCall, now, connections, sinks,
                               handlers>>
           ELSE IF ~body.json
           THEN /\ reply' = Reply("POST", "/", Req(header, body), auth, 200,
                                  [jsonrpc |-> "2.0", id |-> 0,
                                   error |-> [code |-> ParseErrorCode,
                                              message |-> "Parse error"]],
                                  FALSE, None)
                /\ UNCHANGED <<limiter, env, authCall, dispatchCall, now, connections, sinks,
                               handlers>>
           ELSE /\ Suspend("/", auth, body)
                /\ UNCHANGED <<limiter, env, authCall, dispatchCall, now, connections, sinks,
                               reply>>

\* A POST / without the try around handleMCPRequest: what the dispatcher
\* throws ends the handler, and the worker returns no reply of its own.
PostDefaultDone_NoCatch(k, outcome) ==
    /\ reply = NoReply
    /\ handlers[k].pc = "dispatch"
    /\ handlers[k].path = "/"
    /\ LET d == handleMCPRequestInternal(handlers[k].body.value, outcome)
       IN  reply' =
               IF d.threw
               THEN reply
               ELSE Reply("POST", "/", [body |-> handlers[k].body],
                          handlers[k].auth, 200, d.response, TRUE, d.called)
    /\ handlers' = [handlers EXCEPT ![k] = [pc |-> "idle"]]
    /\ UNCHANGED <<limiter, env, authCall, dispatchCall, now, connections, sinks>>

\* POST / from the end of the dispatch.
PostDefaultDone(k, outcome) ==
    /\ reply = NoReply
    /\ handlers[k].pc = "dispatch"
    /\ handlers[k].path = "/"
    /\ LET d == handleMCPRequestInternal(handlers[k].body.value, outcome)
       IN  reply' =
               IF d.threw
               THEN Reply("POST", "/", [body |-> handlers[k].body],
                          handlers[k].auth, 500,
                          [jsonrpc |-> "2.0", id |-> 0,
                           error |-> [code |-> InternalErrorCode,
                                      message |-> "Internal server error"]],
                          TRUE, d.called)
               ELSE Reply("POST", "/", [body |-> handlers[k].body],
                          handlers[k].auth, 200, d.response, TRUE, d.called)
    /\ handlers' = [handlers EXCEPT ![k] = [pc |-> "idle"]]
    /\ UNCHANGED <<limiter, env, authCall, dispatchCall, now, connections, sinks>>

\* cleanupSSEConnections()
Cleanup ==
    /\ reply = NoReply
    /\ SetRegistry(cleanup(Registry, now))
    /\ UNCHANGED <<limiter, env, authCall, dispatchCall, now, handlers, reply>>

\* sendSSEHeartbeat()
Heartbeat(failure) ==
    /\ reply = NoReply
    /\ \A id \in DOMAIN connections : HasRoom(id)
    /\ SetRegistry(sendHeartbeat(Registry, failure, now))
    /\ UNCHANGED <<limiter, env, authCall, dispatchCall, now, handlers, reply>>

\* The client of sink k goes away; the welcome write may still be pending.
ClientVanish(k, welcomePending) ==
    /\ reply = NoReply
    /\ sinks[k].state = "open"
    /\ sinks' = [sinks EXCEPT ![k].state =
                    IF welcomePending THEN "rejecting" ELSE "broken"]
    /\ UNCHANGED <<limiter, env, authCall, dispatchCall, now, connections, handlers, reply>>

\* writer.write(welcomeMessage).catch(...) of createSSEResponse.
WelcomeCatch(k) ==
    /\ reply = NoReply
    /\ sinks[k].state = "rejecting"
    /\ SetRegistry([removeConnection(Registry, sinks[k].connectionId)
                       EXCEPT !.sinks[k].state = "broken"])
    /\ UNCHANGED <<limiter, env, authCall, dispatchCall, now, handlers, reply>>

\* Time passes, one idle timeout at a time: a connection untouched for one
\* step is exactly at the timeout, after two steps it is beyond it.
Tick ==
    /\ reply = NoReply
    /\ now < MaxTicks * ClockStep
    /\ now' = now + ClockStep
    /\ UNCHANGED <<limiter, env, authCall, dispatchCall, connections, sinks, handlers, reply>>

\* The client has the reply: the next event is handled.
ReplyTaken ==
    /\ reply # NoReply
    /\ reply' = NoReply
    /\ UNCHANGED <<limiter, env, authCall, dispatchCall, now, connections, sinks, handlers>>

Init ==
    /\ env \in ServerEnvs
    /\ limiter = NoLimiter
    /\ authCall = NoAuthCall
    /\ dispatchCall = NoDispatchCall
    /\ ServerInit

\* The worker with all its routes, and at most MaxRouteOpens streams.
Next ==
    \/ \E h \in ServerHeaders, r \in RandDraws : GetSSE(h, r, MaxRouteOpens)
    \/ \E h \in ServerHeaders, b \in SSEBodies : PostSSE(h, b)
    \/ \E k \in 1..MaxInFlight, o \in ProviderOutcomes, f \in WriteFailures :
           PostSSEDone(k, o, f)
    \/ \E h \in ServerHeaders, b \in DefaultBodies : PostDefault(h, b)
    \/ \E k \in 1..MaxInFlight, o \in ProviderOutcomes : PostDefaultDone(k, o)
    \/ Cleanup
    \/ \E f \in [DOMAIN connections -> WriteFailures] : Heartbeat(f)
    \/ \E k \in 1..Len(sinks), p \in BOOLEAN : ClientVanish(k, p)
    \/ \E k \in 1..Len(sinks) : WelcomeCatch(k)
    \/ Tick
    \/ ReplyTaken

Spec == Init /\ [][Next]_vars

(***************************************************************************)
(* The stream path on its own, with up to MaxOpens streams: one secret     *)
(* configured, a client that presents it, and requests addressed to        *)
(* connection ids.                                                         *)
(***************************************************************************)
StreamEnv == [MCP_AUTH_TOKEN |-> <<"x">>, MCP_AUTH_TOKENS |-> <<>>]
StreamHeader == <<"Bearer", " ", "x">>

StreamRequests == {r \in ServerRequests : Has(r, "params")}

StreamBodies ==
    {JsonBody(With(r, "connectionId", c)) :
         r \in StreamRequests, c \in IssuedIds \cup {InvalidConnectionId}}

InitStream ==
    /\ env = StreamEnv
    /\ limiter = NoLimiter
    /\ authCall = NoAuthCall
    /\ dispatchCall = NoDispatchCall
    /\ ServerInit

NextStream ==
    \/ \E r \in RandDraws : GetSSE(StreamHeader, r, MaxOpens)
    \/ \E b \in StreamBodies : PostSSE(StreamHeader, b)
    \/ \E k \in 1..MaxInFlight, o \in ProviderOutcomes, f \in WriteFailures :
           PostSSEDone(k, o, f)
    \/ Cleanup
    \/ \E f \in [DOMAIN connections -> WriteFailures] : Heartbeat(f)
    \/ \E k \in 1..Len(sinks), p \in BOOLEAN : ClientVanish(k, p)
    \/ \E k \in 1..Len(sinks) : WelcomeCatch(k)
    \/ Tick
    \/ ReplyTaken

SpecStream == InitStream /\ [][NextStream]_vars

(***************************************************************************)
(* One stream and MaxConcurrent POST handlers in flight at a time, without *)
(* the background passes: two requests with different ids, addressed to    *)
(* the connection ids the server has issued.                               *)
(***************************************************************************)
OrderRequests ==
    {r \in StreamRequests : r.method = "tools/call" /\ Has(r.params, "name")}

OrderBodies ==
    {JsonBody(With(r, "connectionId", c)) :
         r \in OrderRequests, c \in IssuedIds}

InitOrder ==
    /\ env = StreamEnv
    /\ limiter = NoLimiter
    /\ authCall = NoAuthCall
    /\ dispatchCall = NoDispatchCall
    /\ now = 0
    /\ connections = <<>>
    /\ sinks = <<>>
    /\ handlers = [k \in 1..MaxConcurrent |-> [pc |-> "idle"]]
    /\ reply = NoReply

NextOrder ==
    \/ \E r \in RandDraws : GetSSE(StreamHeader, r, MaxRouteOpens)
    \/ \E b \in OrderBodies : PostSSE(StreamHeader, b)
    \/ \E k \in 1..MaxConcurrent, o \in ProviderOutcomes,
          f \in WriteFailures : PostSSEDone(k, o, f)
    \/ \E k \in 1..Len(sinks), p \in BOOLEAN : ClientVanish(k, p)
    \/ \E k \in 1..Len(sinks) : WelcomeCatch(k)
    \/ ReplyTaken

SpecOrder == InitOrder /\ [][NextOrder]_vars

(***************************************************************************)
(* The dispatcher on its own: any request, any provider outcome.           *)
(***************************************************************************)
InitDispatch ==
    /\ env = StreamEnv
    /\ limiter = NoLimiter
    /\ authCall = NoAuthCall
    /\ dispatchCall = NoDispatchCall
    /\ ServerInit

Dispatch(request, outcome) ==
    /\ dispatchCall' = [done |-> TRUE, request |-> request,
                        outcome |-> outcome,
                        result |-> handleMCPRequestInternal(request, outcome)]
    /\ UNCHANGED <<limiter, env, authCall, serverVars>>

NextDispatch == \E r \in Requests, o \in ProviderOutcomes : Dispatch(r, o)

SpecDispatch == InitDispatch /\ [][NextDispatch]_vars

(***************************************************************************)
(* The dispatcher with the provider functions behind it: any request, and  *)
(* the outcome of the fetch the provider function makes (BaseScraper       *)
(* fetchPage throws when the fetch fails or the status is not ok).         *)
(***************************************************************************)
FetchOutcomes == {"ok", "fails"}

\* What the provider function of a tool does with the outcome of its fetch,
\* for arguments it accepts.  search, getCategories, getDetails and
\* getByLocation rethrow what fetchPage throws as a ScraperError; filter
\* catches it and returns { resources: [], totalCount: 0 }.
ProviderOutcome(name, fetch) ==
    IF fetch = "ok" THEN "returns"
    ELSE IF name = "filter_resources" THEN "returns"
    ELSE "throws"

InitProvider ==
    /\ env = StreamEnv
    /\ limiter = NoLimiter
    /\ authCall = NoAuthCall
    /\ dispatchCall = NoDispatchCall
    /\ ServerInit

DispatchFetch(request, fetch) ==
    LET name == IF Has(request, "params") /\ Has(request.params, "name")
                THEN request.params.name ELSE "undefined"
        outcome == ProviderOutcome(name, fetch)
    IN  /\ dispatchCall' = [done |-> TRUE, request |-> request,
                            fetch |-> fetch, outcome |-> outcome,
                            result |-> handleMCPRequestInternal(request,
                                                                outcome)]
        /\ UNCHANGED <<limiter, env, authCall, serverVars>>

NextProvider == \E r \in Requests, f \in FetchOutcomes : DispatchFetch(r, f)

SpecProvider == InitProvider /\ [][NextProvider]_vars

(***************************************************************************)
(* KVRateLimiter (src/rateLimit/kvLimiter.ts): concurrent calls of         *)
(* checkLimit on a CACHE namespace whose get and put are atomic and never  *)
(* fail.  A call is suspended between its get and its put.                 *)
(***************************************************************************)
requestsPerMinute == 30
MinuteMs == 60000

DigitChars == <<"0", "1", "2", "3", "4", "5", "6", "7", "8", "9">>

\* Number.prototype.toString of a non-negative integer: its decimal digits.
RECURSIVE toString(_)
toString(n) ==
    IF n < 10 THEN <<DigitChars[n + 1]>>
    ELSE Append(toString(n \div 10), DigitChars[(n % 10) + 1])

DigitValue(c) == CHOOSE d \in 0..9 : DigitChars[d + 1] = c

\* parseInt of a string of decimal digits.
RECURSIVE parseInt(_)
parseInt(str) ==
    IF Len(str) = 1 THEN DigitValue(str[1])
    ELSE 10 * parseInt(SubSeq(str, 1, Len(str) - 1))
             + DigitValue(str[Len(str)])

\* `rl:${ip}:${minute}`
getRateLimitKey(ip, minute) == <<"rl", ip, minute>>

ClientIps == {"a"}

\* env.CACHE.get(key): the stored string, or null.
CacheGet(cache, key) == IF key \in DOMAIN cache THEN cache[key] ELSE <<>>

\* env.CACHE.put(key, value)
CachePut(cache, key, value) == (key :> value) @@ cache

\* The number of calls for the key that have returned true.
AllowedFor(key) ==
    IF key \in DOMAIN limiter.allowed THEN limiter.allowed[key] ELSE 0

NoCall == [pc |-> "idle", returned |-> "none"]

\* checkLimit(clientIp) up to the end of its get: it returns false at the
\* limit, and otherwise goes on to its put with the count it has read.
CheckLimitGet(k, ip) ==
    LET minute == now \div MinuteMs
        key == getRateLimitKey(ip, minute)
        count == CacheGet(limiter.CACHE, key)
    IN  /\ limiter.calls[k].pc = "idle"
        /\ AllowedFor(key) < MaxAllowed
        /\ limiter' =
               [limiter EXCEPT !.calls[k] =
                   IF Truthy(count) /\ parseInt(count) >= requestsPerMinute
                   THEN [pc |-> "idle", returned |-> FALSE]
                   ELSE [pc |-> "put", key |-> key,
                         newCount |->
                             toString(parseInt(IF Truthy(count) THEN count
                                               ELSE <<"0">>) + 1)]]
        /\ UNCHANGED <<env, authCall, dispatchCall, serverVars>>

\* checkLimit from the end of its get: the put, and return true.
CheckLimitPut(k) ==
    /\ limiter.calls[k].pc = "put"
    /\ LET key == limiter.calls[k].key
       IN  limiter' =
               [limiter EXCEPT
                   !.CACHE = CachePut(@, key, limiter.calls[k].newCount),
                   !.allowed = (key :> (AllowedFor(key) + 1)) @@ @,
                   !.calls[k] = [pc |-> "idle", returned |-> TRUE]]
    /\ UNCHANGED <<env, authCall, dispatchCall, serverVars>>

InitLimiter ==
    /\ env = StreamEnv
    /\ authCall = NoAuthCall
    /\ dispatchCall = NoDispatchCall
    /\ now = 0
    /\ connections = <<>>
    /\ sinks = <<>>
    /\ handlers = [k \in 1..MaxInFlight |-> [pc |-> "idle"]]
    /\ reply = NoReply
    /\ limiter = [CACHE |-> <<>>, allowed |-> <<>>,
                  calls |-> [k \in 1..MaxCalls |-> NoCall]]

NextLimiter ==
    \/ \E k \in 1..MaxCalls, ip \in ClientIps : CheckLimitGet(k, ip)
    \/ \E k \in 1..MaxCalls : CheckLimitPut(k)

SpecLimiter == InitLimiter /\ [][NextLimiter]_vars

(***************************************************************************)
(* The gate on its own: any configuration, any header.                     *)
(***************************************************************************)
InitAuth ==
    /\ env \in Envs
    /\ limiter = NoLimiter
    /\ authCall = NoAuthCall
    /\ dispatchCall = NoDispatchCall
    /\ ServerInit

\* One call of the gate in a run.
Authenticate(h) ==
    /\ ~authCall.done
    /\ authCall' = [done |-> TRUE, header |-> h,
                    result |-> authenticateRequestMultiKey(h, env)]
    /\ UNCHANGED <<limiter, env, dispatchCall, serverVars>>

NextAuth == \E h \in Headers : Authenticate(h)

SpecAuth == InitAuth /\ [][NextAuth]_vars

(***************************************************************************)
(* The routes of fetch that ask no credential, next to the opening of      *)
(* streams: OPTIONS, GET /health, GET /, GET on any other path, and the    *)
(* methods fetch does not serve.                                           *)
(***************************************************************************)
\* The AuthResult field of a reply produced without a call of the gate.
NotAsked == [asked |-> FALSE]

CorsHeaders ==
    [allowOrigin |-> "*", allowMethods |-> "GET, POST, OPTIONS",
     allowHeaders |-> "Content-Type, Authorization"]

StatsTimeout == 90000

\* Statistics counted before the sweep.
getSSEStats_CountFirst(st, time) ==
    LET active == {id \in DOMAIN st.connections :
                       time - st.connections[id].lastActivity <= StatsTimeout}
    IN  [st |-> cleanup(st, time),
         stats |-> [totalConnections |-> Cardinality(DOMAIN st.connections),
                    activeConnections |-> Cardinality(active)]]

\* The statistics without the sweep.
getSSEStats_NoSweep(st, time) ==
    LET active == {id \in DOMAIN st.connections :
                       time - st.connections[id].lastActivity <= StatsTimeout}
    IN  [st |-> st,
         stats |-> [totalConnections |-> Cardinality(DOMAIN st.connections),
                    activeConnections |-> Cardinality(active)]]

\* getSSEStats(): the sweep first, then the count of what is left.
getSSEStats(st, time) ==
    LET swept == cleanup(st, time)
        active == {id \in DOMAIN swept.connections :
                       time - swept.connections[id].lastActivity
                           <= StatsTimeout}
    IN  [st |-> swept,
         stats |-> [totalConnections |->
                        Cardinality(DOMAIN swept.connections),
                    activeConnections |-> Cardinality(active)]]

\* A preflight that asks the gate first.
Options_Gated(path, header) ==
    LET auth == authenticateRequestMultiKey(header, env)
    IN  /\ reply = NoReply
        /\ reply' = IF ~auth.isAuthenticated
                    THEN createUnauthorizedResponse("OPTIONS", path,
                                                    Req(header, NoBody), auth)
                    ELSE Reply("OPTIONS", path, Req(header, NoBody), NotAsked,
                               200, CorsHeaders, FALSE, None)
        /\ UNCHANGED <<limiter, env, authCall, dispatchCall, now, connections, sinks,
                       handlers>>

\* fetch, request.method === 'OPTIONS': the preflight reply, on any path.
Options(path, header) ==
    /\ reply = NoReply
    /\ reply' = Reply("OPTIONS", path, Req(header, NoBody), NotAsked, 200,
                      CorsHeaders, FALSE, None)
    /\ UNCHANGED <<limiter, env, authCall, dispatchCall, now, connections, sinks,
                   handlers>>

\* fetch, GET /health: the report, with the statistics of getSSEStats().
GetHealth(header) ==
    LET s == getSSEStats(Registry, now)
    IN  /\ reply = NoReply
        /\ SetRegistry(s.st)
        /\ reply' = Reply("GET", "/health", Req(header, NoBody), NotAsked,
                          200,
                          [status |-> "healthy",
                           sse |-> [enabled |-> env.SSE_ENABLED # "false",
                                    stats |-> s.stats]],
                          FALSE, None)
        /\ UNCHANGED <<limiter, env, authCall, dispatchCall, now, handlers>>

\* fetch, GET /: the description of the server.
GetRoot(header) ==
    /\ reply = NoReply
    /\ reply' = Reply("GET", "/", Req(header, NoBody), NotAsked, 200,
                      [name |-> "CLG-MCP", version |-> "1.0.0"], FALSE, None)
    /\ UNCHANGED <<limiter, env, authCall, dispatchCall, now, connections, sinks,
                   handlers>>

\* fetch, GET on a path that is none of /health, /sse and /.
GetOther(path, header) ==
    /\ reply = NoReply
    /\ path \notin {"/health", "/sse", "/"}
    /\ reply' = Reply("GET", path, Req(header, NoBody), NotAsked, 404,
                      [text |-> "Not found"], FALSE, None)
    /\ UNCHANGED <<limiter, env, authCall, dispatchCall, now, connections, sinks,
                   handlers>>

\* fetch, a method that is none of OPTIONS, GET and POST.
OtherMethod(method, path, header) ==
    /\ reply = NoReply
    /\ method \notin {"OPTIONS", "GET", "POST"}
    /\ reply' = Reply(method, path, Req(header, NoBody), NotAsked, 405,
                      [text |-> "Method not allowed"], FALSE, None)
    /\ UNCHANGED <<limiter, env, authCall, dispatchCall, now, connections, sinks,
                   handlers>>

\* Configurations: without a secret and with one, streaming enabled or
\* disabled, and room for one connection (the variables are strings in the
\* deployment; the limit is given as the number it stands for).
RouteEnvs ==
    {[MCP_AUTH_TOKEN |-> t, MCP_AUTH_TOKENS |-> <<>>, SSE_ENABLED |-> e,
      SSE_MAX_CONNECTIONS |-> 1] :
         t \in {<<>>, <<"x">>}, e \in {"true", "false"}}

\* No Authorization header, and the Bearer header of the secret.
RouteHeaders == {<<>>, StreamHeader}

RoutePaths == {"/", "/sse", "/health", "/nowhere"}
RouteMethods == {"OPTIONS", "GET", "POST", "DELETE"}

InitRoutes ==
    /\ env \in RouteEnvs
    /\ limiter = NoLimiter
    /\ authCall = NoAuthCall
    /\ dispatchCall = NoDispatchCall
    /\ ServerInit

NextRoutes ==
    \/ \E p \in RoutePaths, h \in RouteHeaders : Options(p, h)
    \/ \E h \in RouteHeaders : GetHealth(h)
    \/ \E h \in RouteHeaders : GetRoot(h)
    \/ \E p \in RoutePaths, h \in RouteHeaders : GetOther(p, h)
    \/ \E m \in RouteMethods, p \in RoutePaths, h \in RouteHeaders :
           OtherMethod(m, p, h)
    \/ \E h \in RouteHeaders, r \in RandDraws : GetSSE(h, r, MaxOpens)
    \/ \E k \in 1..Len(sinks), p \in BOOLEAN : ClientVanish(k, p)
    \/ \E k \in 1..Len(sinks) : WelcomeCatch(k)
    \/ Tick
    \/ ReplyTaken

SpecRoutes == InitRoutes /\ [][NextRoutes]_vars

(***************************************************************************)
(* The gate called twice with the same header, while the worker serves the *)
(* stream path between the two calls.                                      *)
(***************************************************************************)
\* A gate whose second answer depends on the registry.
AuthenticateAgain_Stateful ==
    /\ authCall.done
    /\ ~Has(authCall, "again")
    /\ authCall' = With(authCall, "again",
                        IF DOMAIN connections # {} THEN Authorized
                        ELSE authenticateRequestMultiKey(authCall.header,
                                                         env))
    /\ UNCHANGED <<limiter, env, dispatchCall, serverVars>>

\* The second call, with the header of the first.
AuthenticateAgain ==
    /\ authCall.done
    /\ ~Has(authCall, "again")
    /\ authCall' = With(authCall, "again",
                        authenticateRequestMultiKey(authCall.header, env))
    /\ UNCHANGED <<limiter, env, dispatchCall, serverVars>>

InitGate ==
    /\ env \in ServerEnvs
    /\ limiter = NoLimiter
    /\ authCall = NoAuthCall
    /\ dispatchCall = NoDispatchCall
    /\ ServerInit

NextGate ==
    \/ \E h \in ServerHeaders : Authenticate(h)
    \/ AuthenticateAgain
    \/ \E h \in ServerHeaders, r \in RandDraws : GetSSE(h, r, MaxRouteOpens)
    \/ Cleanup
    \/ \E k \in 1..Len(sinks), p \in BOOLEAN : ClientVanish(k, p)
    \/ \E k \in 1..Len(sinks) : WelcomeCatch(k)
    \/ Tick
    \/ ReplyTaken

SpecGate == InitGate /\ [][NextGate]_vars

(***************************************************************************)
(* The configured secret set: the single secret, and the trimmed pieces of *)
(* the comma-separated list.                                               *)
(***************************************************************************)
ConfiguredSecrets(e) ==
    (IF Truthy(e.MCP_AUTH_TOKEN) THEN {e.MCP_AUTH_TOKEN} ELSE {})
    \cup (IF Truthy(e.MCP_AUTH_TOKENS)
          THEN {Trim(SplitComma(e.MCP_AUTH_TOKENS)[i]) :
                    i \in 1..Len(SplitComma(e.MCP_AUTH_TOKENS))} \ {<<>>}
          ELSE {})

\* h is "Bearer <t>" for a configured secret t: the word Bearer, whitespace
\* and the secret, as the gate's pattern reads the header.
BearerOfSecret(h, e) ==
    BearerMatch(h).matched /\ BearerMatch(h).token \in ConfiguredSecrets(e)

\* C1: whenever at least one secret is configured (single field, list field
\* or both), the gate answers Authorized exactly for the headers of the form
\* "Bearer <t>" with t a configured secret.
C1_AuthorizedIffBearerOfSecret ==
    (authCall.done /\ ConfiguredSecrets(env) # {})
        => (authCall.result.isAuthenticated
                <=> BearerOfSecret(authCall.header, env))

(***************************************************************************)
(* Steps of the worker, as the claims speak of them.                       *)
(***************************************************************************)
\* The worker returns a reply in this step.
Replies == reply = NoReply /\ reply' # NoReply

\* A handler is suspended in its dispatch by this step.
Suspends(k) == handlers[k].pc = "idle" /\ handlers'[k].pc = "dispatch"

Slots == DOMAIN handlers

NoEffect == UNCHANGED <<connections, sinks, handlers>>

ProtectedRoutes ==
    {<<"GET", "/sse">>, <<"POST", "/sse">>, <<"POST", "/">>}

Protected(r) == <<r.method, r.path>> \in ProtectedRoutes

Addressed(request) ==
    Has(request, "connectionId") /\ Truthy(request.connectionId)

\* C2: on the protected routes a request the gate denies has no effect: the
\* registry, the sinks and the handlers in dispatch stay as they are, nothing
\* is dispatched, and no handler is ever suspended in a dispatch with a
\* denied AuthResult.
C2_DeniedHasNoEffect ==
    [][/\ (Replies /\ Protected(reply')
             /\ (~reply'.auth.isAuthenticated
                 \/ (Has(reply'.request, "header")
                     /\ ~authenticateRequestMultiKey(reply'.request.header,
                                                     env).isAuthenticated)))
            => (NoEffect /\ ~reply'.dispatched /\ reply'.called = None)
       /\ \A k \in Slots : Suspends(k) => handlers'[k].auth.isAuthenticated
      ]_vars

\* A denied request arrived while a session was live.
C2_Witness ==
    /\ reply # NoReply
    /\ reply.status = 401
    /\ DOMAIN connections # {}

\* C3: with secrets configured, a request without header is denied as
\* missing, one whose header is not "Bearer <token>" as invalid format, one
\* whose token is no configured secret as invalid token; every denied request
\* on a protected route gets 401 with that reason.
C3_DenialReasons ==
    (reply # NoReply /\ Protected(reply) /\ ConfiguredSecrets(env) # {})
        => /\ Has(reply.request, "header") =>
                LET h == reply.request.header
                IN  /\ ~Truthy(h) => reply.auth = Denied(MissingHeader)
                    /\ (Truthy(h) /\ ~BearerMatch(h).matched)
                           => reply.auth = Denied(InvalidFormat)
                    /\ (BearerMatch(h).matched
                           /\ BearerMatch(h).token \notin ConfiguredSecrets(env))
                           => reply.auth = Denied(InvalidToken)
           /\ ~reply.auth.isAuthenticated
                  => /\ reply.status = 401
                     /\ reply.json.message = reply.auth.error

\* C4: an authorized POST /sse addressed to a connection id that is not in
\* the registry is answered 400 with code -32001 and 'Connection not found',
\* changes nothing and is never dispatched.
C4_UnknownConnection ==
    [][/\ (Replies /\ reply'.method = "POST" /\ reply'.path = "/sse"
             /\ reply'.auth.isAuthenticated
             /\ Has(reply'.request, "header")
             /\ reply'.request.body.json
             /\ Addressed(reply'.request.body.value)
             /\ reply'.request.body.value.connectionId
                    \notin DOMAIN connections)
            => /\ reply'.status = 400
               /\ reply'.json = [error |-> "Connection not found",
                                 code |-> ConnectionNotFoundCode]
               /\ ~reply'.dispatched
               /\ NoEffect
       /\ \A k \in Slots :
              (Suspends(k) /\ handlers'[k].path = "/sse"
                 /\ Addressed(handlers'[k].body.value))
                  => handlers'[k].body.value.connectionId
                         \in DOMAIN connections
      ]_vars

\* A request addressed to an id that is not registered was answered while
\* another session was live.
C4_Witness ==
    /\ reply # NoReply
    /\ reply.status = 400
    /\ Has(reply.json, "code")
    /\ reply.json.code = ConnectionNotFoundCode
    /\ DOMAIN connections # {}

\* The frames of event mcp-response on the sinks created for connectionId
\* that carry a Response with the given id.
ResponseFramesFor(connectionId, id) ==
    {<<k, i>> \in (1..Len(sinks)) \X (1..FrameCap) :
        /\ sinks[k].connectionId = connectionId
        /\ i <= Len(sinks[k].frames)
        /\ sinks[k].frames[i].event = "mcp-response"
        /\ sinks[k].frames[i].data.id = id}

\* C5: whenever a POST /sse is answered {status: 'sent'}, a frame
\* 'mcp-response' with the Response of that request is on the sink of the
\* session it named.
C5_SentMeansDelivered ==
    (reply # NoReply /\ reply.json = [status |-> "sent"])
        => ResponseFramesFor(reply.request.body.value.connectionId,
                             reply.request.body.value.id) # {}

\* The ids that were registered and are not any more.
RemovedIds == IssuedIds \ DOMAIN connections

\* The sinks no registered session writes to.
Orphaned(k) == \A id \in DOMAIN connections : connections[id].controller # k

\* C6: once a session id is removed from the registry, no step puts it back
\* and no step enqueues a frame on the sink of the removed session.
C6_RemovalIsFinal ==
    [][/\ \A id \in RemovedIds : id \notin DOMAIN connections'
       /\ \A k \in 1..Len(sinks) :
              Orphaned(k) => sinks'[k].frames = sinks[k].frames
      ]_vars

\* C7: the dispatcher answers every request with a Response that carries the
\* id of the request.
C7_ResponseEchoesId ==
    dispatchCall.done
        => /\ ~dispatchCall.result.threw
           /\ dispatchCall.result.response.id = dispatchCall.request.id

\* The JSON bodies that are Responses: what POST / returns, and what POST
\* /sse returns other than the 'sent' acknowledgment.
ExactlyOne(r) == Has(r, "result") # Has(r, "error")

\* C8: every Response of the POST handlers and every Response framed on a
\* sink carries exactly one of result and error.
C8_ResultXorError ==
    /\ (reply # NoReply /\ reply.method = "POST"
          /\ reply.json # [status |-> "sent"])
           => ExactlyOne(reply.json)
    /\ \A k \in 1..Len(sinks) : \A i \in 1..Len(sinks[k].frames) :
           sinks[k].frames[i].event = "mcp-response"
               => ExactlyOne(sinks[k].frames[i].data)

\* An error Response came out of a dispatch.
C8_Witness ==
    /\ reply # NoReply
    /\ reply.dispatched
    /\ Has(reply.json, "error")

\* The parse-error code of a reply body: in the error object of a JSON-RPC
\* Response, or at the top of the stream path's error body.
ErrorCodeOf(json) ==
    IF Has(json, "code") THEN json.code
    ELSE IF Has(json, "error") /\ Has(json.error, "code") THEN json.error.code
    ELSE 0

\* C9: an authorized POST whose body does not parse is answered 400 with the
\* parse-error code on both POST paths, nothing is dispatched and the
\* registry is unchanged.
C9_ParseErrorIs400 ==
    [][(Replies /\ reply'.method = "POST" /\ reply'.auth.isAuthenticated
          /\ reply'.request.body = Unparsable)
         => /\ reply'.status = 400
            /\ ErrorCodeOf(reply'.json) = ParseErrorCode
            /\ ~reply'.dispatched
            /\ NoEffect
      ]_vars

\* The request of a reply calls a tool that is not published.
CallsUnknownTool(request) ==
    /\ request.method = "tools/call"
    /\ Has(request, "params")
    /\ (Has(request.params, "name") => request.params.name \notin ToolNames)

UnknownToolError(response, request) ==
    /\ Has(response, "error")
    /\ ~Has(response, "result")
    /\ response.error.code = InternalErrorCode
    /\ response.error.message =
           <<"Tool execution failed: ", "Unknown tool: ",
             IF Has(request.params, "name") THEN request.params.name
             ELSE "undefined">>

\* C10: a tools/call naming a tool that is not published is answered with an
\* error Response of code -32603 that names the tool, with an HTTP status
\* other than 500, and no provider function is invoked: the Response is the
\* reply's body, or the frame this step enqueues.
C10_UnknownToolIsStructuredError ==
    [][(Replies /\ reply'.method = "POST" /\ reply'.dispatched
          /\ CallsUnknownTool(reply'.request.body.value))
         => /\ reply'.status = 200
            /\ reply'.called = None
            /\ IF Addressed(reply'.request.body.value)
               THEN \A k \in 1..Len(sinks) :
                        sinks'[k].frames # sinks[k].frames
                            => /\ Len(sinks'[k].frames)
                                      = Len(sinks[k].frames) + 1
                               /\ UnknownToolError(
                                      sinks'[k].frames[Len(sinks'[k].frames)].data,
                                      reply'.request.body.value)
               ELSE UnknownToolError(reply'.json, reply'.request.body.value)
      ]_vars

\* A call of an unknown tool was answered, its Response framed on a sink.
C10_Witness ==
    /\ reply # NoReply
    /\ reply.dispatched
    /\ reply.json = [status |-> "sent"]
    /\ CallsUnknownTool(reply.request.body.value)
    /\ ResponseFramesFor(reply.request.body.value.connectionId,
                         reply.request.body.value.id) # {}

\* The call of the dispatcher is a tools/call of a published tool.
CallsKnownTool(request) ==
    /\ request.method = "tools/call"
    /\ Has(request, "params")
    /\ Has(request.params, "name")
    /\ request.params.name \in ToolNames

\* C11: a call of a published tool whose provider function throws comes back
\* as an error Response of code -32603 that keeps the provider's message, and
\* one whose provider returns comes back as a result with the value as text
\* content; nothing is thrown out of the dispatcher, and the call leaves the
\* registry and the sinks as they were.
C11_ProviderFailureIsStructured ==
    [][(dispatchCall'.done /\ CallsKnownTool(dispatchCall'.request))
         => LET d == dispatchCall'.result
                request == dispatchCall'.request
            IN  /\ ~d.threw
                /\ d.called = request.params.name
                /\ d.response.id = request.id
                /\ IF dispatchCall'.outcome = "throws"
                   THEN /\ ~Has(d.response, "result")
                        /\ Has(d.response, "error")
                        /\ d.response.error.code = InternalErrorCode
                        /\ d.response.error.message =
                               <<"Tool execution failed: ", ProviderMessage>>
                   ELSE /\ ~Has(d.response, "error")
                        /\ Has(d.response, "result")
                        /\ d.response.result.content =
                               <<[type |-> "text", text |-> ProviderValue]>>
                /\ UNCHANGED <<connections, sinks>>
      ]_vars

\* The provider function of a published tool threw.
C11_Witness ==
    /\ dispatchCall.done
    /\ CallsKnownTool(dispatchCall.request)
    /\ dispatchCall.outcome = "throws"
    /\ Has(dispatchCall.result, "response")
    /\ Has(dispatchCall.result.response, "error")

\* The sessions a sweep at the current time has to remove: those untouched
\* for more than three heartbeat intervals.
IdleSessions ==
    {id \in DOMAIN connections :
        now - connections[id].lastActivity > 3 * HeartbeatInterval}

\* C12: a sweep removes exactly the sessions idle for more than three
\* heartbeat intervals and leaves the others as they are; the writer of each
\* removed session is closed once, and a close that fails (the writer is not
\* open any more) leaves the writer as it is and stops neither that removal
\* nor the rest of the sweep.
C12_SweepRemovesExactlyIdle ==
    [][Cleanup
         => /\ DOMAIN connections' = DOMAIN connections \ IdleSessions
            /\ \A id \in DOMAIN connections' :
                   connections'[id] = connections[id]
            /\ Len(sinks') = Len(sinks)
            /\ \A k \in 1..Len(sinks) :
                   sinks'[k] =
                       IF \E id \in IdleSessions :
                              connections[id].controller = k
                       THEN [sinks[k] EXCEPT !.state =
                                IF @ = "open" THEN "closed" ELSE @]
                       ELSE sinks[k]
      ]_vars

\* A sweep closed and removed one session and kept another.
C12_Witness ==
    /\ \E k \in 1..Len(sinks) :
           /\ sinks[k].state = "closed"
           /\ sinks[k].connectionId \notin DOMAIN connections
    /\ DOMAIN connections # {}

\* A heartbeat pass runs in this step.
HeartbeatPass == \E f \in [DOMAIN connections -> WriteFailures] : Heartbeat(f)

\* C13: a heartbeat pass writes one heartbeat frame to every session live at
\* its start; a session whose write succeeds stays registered with
\* lastActivity at the time of the pass, and a session whose write fails is
\* out of the registry when the pass returns.
C13_HeartbeatRemovesFailed ==
    [][HeartbeatPass
         => \A id \in DOMAIN connections :
                LET k == connections[id].controller
                IN  IF sinks[k].state = "open"
                    THEN /\ id \in DOMAIN connections'
                         /\ connections'[id].lastActivity = now
                         /\ sinks'[k].frames =
                                Append(sinks[k].frames, HeartbeatFrame)
                    ELSE id \notin DOMAIN connections'
      ]_vars

\* A stream is opened in this step: the sink created last is new.
Opens == Len(sinks') = Len(sinks) + 1

\* C14: the id under which a session is opened is none of the ids in the
\* registry and none of the ids issued before, so that an open never writes
\* over the entry of a live session.
C14_OpenedIdIsFresh ==
    [][Opens
         => LET id == sinks'[Len(sinks')].connectionId
            IN  /\ id \notin DOMAIN connections
                /\ id \notin IssuedIds
      ]_vars

\* C15: once an id is removed from the registry, a lookup of it finds
\* nothing from then on, and a touch of it changes no session and adds no
\* entry.
C15_RemovedStaysAbsent ==
    [][\A id \in RemovedIds :
           /\ ~getConnection(Registry, id).found
           /\ updateActivity(Registry, id, now) = Registry
           /\ ~getConnection([connections |-> connections',
                              sinks |-> sinks'], id).found
      ]_vars

\* The first frame of sink k is the 'connected' frame with the id the sink
\* was created for.
ConnectedFirst(sink) ==
    /\ Len(sink.frames) >= 1
    /\ sink.frames[1].event = "connected"
    /\ sink.frames[1].data.connectionId = sink.connectionId
    /\ sink.connectionId # <<>>

\* C16: an authorized GET /sse registers one session, created and last
\* active now, under the id of a new sink whose only frame is the
\* 'connected' frame with that id, and touches no other session and no other
\* sink; on every sink the 'connected' frame stays the first one.
C16_ConnectedFrameFirst ==
    [][/\ (Replies /\ reply'.method = "GET" /\ reply'.path = "/sse"
             /\ reply'.auth.isAuthenticated)
            => /\ Opens
               /\ LET k == Len(sinks')
                      id == sinks'[k].connectionId
                  IN  /\ DOMAIN connections' = DOMAIN connections \cup {id}
                      /\ connections'[id] =
                             [id |-> id, controller |-> k,
                              createdAt |-> now, lastActivity |-> now]
                      /\ \A j \in DOMAIN connections \ {id} :
                             connections'[j] = connections[j]
                      /\ Len(sinks'[k].frames) = 1
                      /\ \A j \in 1..Len(sinks) : sinks'[j] = sinks[j]
       /\ \A k \in 1..Len(sinks') : ConnectedFirst(sinks'[k])
      ]_vars

\* A second stream was opened next to a live one, and frames followed the
\* welcome frame on a sink.
C16_Witness ==
    /\ Cardinality(DOMAIN connections) = 2
    /\ \E k \in 1..Len(sinks) : Len(sinks[k].frames) > 1

\* C17: on the stream path the acknowledgment {status: 'sent'} is returned
\* without waiting for the dispatch of the request, and the Response frame
\* of the request is enqueued on the sink after the acknowledgment: when the
\* acknowledgment is returned the handler has not been through the dispatch
\* and no Response frame of the request is on the session's sink.
C17_AckBeforeResponse ==
    (reply # NoReply /\ reply.json = [status |-> "sent"])
        => /\ ~reply.dispatched
           /\ ResponseFramesFor(reply.request.body.value.connectionId,
                                reply.request.body.value.id) = {}

\* The handler in slot k comes out of its dispatch in this step.
Completes(k) == handlers[k].pc = "dispatch" /\ handlers'[k].pc = "idle"

\* The handler in slot k, suspended in its dispatch, can go on.
CanComplete(k) ==
    ENABLED (\E o \in ProviderOutcomes, f \in WriteFailures :
                 PostSSEDone(k, o, f))

\* C18: the Response frames of concurrent POSTs addressed to one session are
\* enqueued in the order in which the dispatches complete: the handler that
\* completes appends its frame behind the frames already on the sink, no
\* step reorders or drops frames, and a handler in its dispatch can complete
\* whatever the other handlers are doing.
C18_FramesInCompletionOrder ==
    [][/\ \A k \in Slots :
              Completes(k) =>
                  LET r == handlers[k].body.value
                      c == connections[r.connectionId].controller
                  IN  (r.connectionId \in DOMAIN connections
                         /\ sinks[c].state = "open")
                          => /\ Len(sinks'[c].frames) = Len(sinks[c].frames) + 1
                             /\ sinks'[c].frames[Len(sinks'[c].frames)].event
                                    = "mcp-response"
                             /\ sinks'[c].frames[Len(sinks'[c].frames)].data.id
                                    = r.id
       /\ \A c \in 1..Len(sinks) :
              SubSeq(sinks'[c].frames, 1, Len(sinks[c].frames))
                  = sinks[c].frames
       /\ \A k \in Slots :
              (handlers[k].pc = "dispatch" /\ reply = NoReply
                 /\ HasRoom(handlers[k].body.value.connectionId))
                  => CanComplete(k)
      ]_vars

\* The request in slot 2 was submitted while the one in slot 1 was in its
\* dispatch, and its Response is on the sink while the one in slot 1 is
\* still in its dispatch: slot 1 has not completed since, or its frame would
\* be on the open sink too.
C18_Witness ==
    /\ handlers[1].pc = "dispatch"
    /\ handlers[1].body.value.id = 1
    /\ handlers[2].pc = "idle"
    /\ \E c \in 1..Len(sinks) :
           /\ sinks[c].state = "open"
           /\ handlers[1].body.value.connectionId = sinks[c].connectionId
           /\ Len(sinks[c].frames) = 2
           /\ sinks[c].frames[2].event = "mcp-response"
           /\ sinks[c].frames[2].data.id = 2

\* A POST addressed to session id resolves it and goes on to its dispatch in
\* this step.
InboundFor(id) ==
    \E k \in Slots :
        /\ Suspends(k)
        /\ handlers'[k].path = "/sse"
        /\ Addressed(handlers'[k].body.value)
        /\ handlers'[k].body.value.connectionId = id

\* A heartbeat or Response frame is delivered through session id in this
\* step: its sink takes one more frame.
DeliveredThrough(id) ==
    LET c == connections[id].controller
    IN  /\ Len(sinks'[c].frames) = Len(sinks[c].frames) + 1
        /\ sinks'[c].frames[Len(sinks'[c].frames)].event
               \in {"heartbeat", "mcp-response"}

\* C19: the lastActivity of a session is set to the current time by every
\* inbound POST that resolves the session and by every heartbeat or Response
\* frame delivered through it, and nothing else changes it.
C19_LastActivity ==
    [][\A id \in DOMAIN connections :
           (id \in DOMAIN connections'
              /\ connections'[id].controller = connections[id].controller)
               => /\ (InboundFor(id) \/ DeliveredThrough(id))
                        => connections'[id].lastActivity = now
                  /\ connections'[id].lastActivity
                         # connections[id].lastActivity
                        => (InboundFor(id) \/ DeliveredThrough(id))
      ]_vars

\* The session registered under id leaves the registry in this step: its
\* entry is deleted, or is written over with that of another stream.
Leaves(id) ==
    \/ id \notin DOMAIN connections'
    \/ connections'[id].controller # connections[id].controller

\* C20: a session leaves the registry only for cause: its writer has failed
\* (it is not open any more, so that the welcome, heartbeat or response write
\* fails), or a sweep finds it idle beyond the threshold.
C20_RemovedOnlyForCause ==
    [][\A id \in DOMAIN connections :
           Leaves(id)
               => \/ sinks[connections[id].controller].state # "open"
                  \/ (Cleanup /\ id \in IdleSessions)
      ]_vars

(***************************************************************************)
(* Public mode of the gate.                                                *)
(***************************************************************************)
\* Neither MCP_AUTH_TOKEN nor MCP_AUTH_TOKENS is set.
NoSecretConfigured(e) == ~Truthy(e.MCP_AUTH_TOKEN) /\ ~Truthy(e.MCP_AUTH_TOKENS)

\* C23: when no secret is configured at all (neither the single secret nor
\* the list), the gate answers Authorized for every request, whatever its
\* Authorization header: absent, malformed or a Bearer header.
C23_PublicModeAuthorizes ==
    (authCall.done /\ NoSecretConfigured(env))
        => authCall.result = Authorized

\* The gate has answered, with no secret configured, a request without a
\* header.
C23_Witness ==
    /\ authCall.done
    /\ NoSecretConfigured(env)
    /\ authCall.header = <<>>
    /\ authCall.result = Authorized

(***************************************************************************)
(* The gate as a function of the header and the configuration.             *)
(***************************************************************************)
\* The gate is called in this step.
GateCalled == authCall' # authCall

HandshakeMethods == {"initialize", "initialized", "tools/list"}

\* C25: the method table is exhaustive: initialize, initialized and
\* tools/list always return a result and invoke no provider function;
\* tools/call is the only method that can invoke one; every other method is
\* answered with an error Response of code -32601 and invokes nothing.
C25_MethodTableExhaustive ==
    dispatchCall.done
        => LET m == dispatchCall.request.method
               d == dispatchCall.result
           IN  /\ m \in HandshakeMethods
                    => /\ ~d.threw
                       /\ Has(d.response, "result")
                       /\ ~Has(d.response, "error")
                       /\ d.called = None
               /\ d.called # None => m = "tools/call"
               /\ m \notin HandshakeMethods \cup {"tools/call"}
                    => /\ ~d.threw
                       /\ Has(d.response, "error")
                       /\ ~Has(d.response, "result")
                       /\ d.response.error.code = MethodNotFoundCode
                       /\ d.called = None

\* A method outside the table was dispatched, with params that name a
\* published tool.
C25_Witness ==
    /\ dispatchCall.done
    /\ dispatchCall.request.method = "resources/list"
    /\ CallsKnownTool([dispatchCall.request EXCEPT !.method = "tools/call"])
    /\ dispatchCall.result.response.error.code = MethodNotFoundCode

\* The names of the descriptors in a catalog are pairwise distinct.
DistinctNames(tools) ==
    \A i, j \in DOMAIN tools : tools[i].name = tools[j].name => i = j

\* C26: the catalog is static and agrees with the dispatch: tools/list
\* returns the same 5 descriptors, with pairwise distinct names, on every
\* call, and tools/call hands a name to a provider function exactly when
\* the name is in that list.
C26_CatalogMatchesDispatch ==
    dispatchCall.done
        => LET request == dispatchCall.request
               d == dispatchCall.result
           IN  /\ request.method = "tools/list"
                    => /\ ~d.threw
                       /\ d.response.result.tools = ToolDescriptors
                       /\ Len(d.response.result.tools) = 5
                       /\ DistinctNames(d.response.result.tools)
                       /\ {d.response.result.tools[i].name :
                               i \in DOMAIN d.response.result.tools}
                              = ToolCases
               /\ (request.method = "tools/call" /\ Has(request, "params"))
                    => (d.called # None
                           <=> /\ Has(request.params, "name")
                               /\ request.params.name \in ToolNames)

\* The catalog was listed.
C26_Witness ==
    /\ dispatchCall.done
    /\ dispatchCall.request.method = "tools/list"
    /\ Len(dispatchCall.result.response.result.tools) = 5

(***************************************************************************)
(* Exceptions out of the dispatch.                                         *)
(***************************************************************************)
\* The dispatch of the request on this path lets an exception escape,
\* whatever the provider does.
DispatchThrows(path, request) ==
    \A o \in ProviderOutcomes :
        IF path = "/sse" THEN processSSEMCPRequest(request, o).threw
        ELSE handleMCPRequestInternal(request, o).threw

\* The handler in slot k, suspended in its dispatch on either path, can go
\* on to its reply.
CanReply(k) ==
    ENABLED (\/ \E o \in ProviderOutcomes, f \in WriteFailures :
                    PostSSEDone(k, o, f)
             \/ \E o \in ProviderOutcomes : PostDefaultDone(k, o))

\* C27: an exception raised while an authorized POST is handled, on the
\* default path or on the stream path, is caught by the worker and answered
\* with HTTP 500 and the code -32603; no exception escapes: the handler that
\* comes out of its dispatch returns a reply, and a handler whose dispatch
\* throws can always go on to it.
C27_ExceptionIsInternalError ==
    [][\A k \in Slots :
           /\ Completes(k)
                => /\ Replies
                   /\ reply'.method = "POST"
                   /\ reply'.path = handlers[k].path
                   /\ DispatchThrows(handlers[k].path, handlers[k].body.value)
                        => /\ reply'.status = 500
                           /\ ErrorCodeOf(reply'.json) = InternalErrorCode
                           /\ UNCHANGED <<connections, sinks>>
           /\ (reply = NoReply /\ handlers[k].pc = "dispatch"
                 /\ DispatchThrows(handlers[k].path, handlers[k].body.value))
                => CanReply(k)
      ]_vars

\* A POST on the stream path whose dispatch threw was answered 500.
C27_Witness ==
    /\ reply # NoReply
    /\ reply.method = "POST"
    /\ reply.path = "/sse"
    /\ reply.dispatched
    /\ DispatchThrows("/sse", reply.request.body.value)
    /\ reply.status = 500

(***************************************************************************)
(* The routes that ask no credential.                                      *)
(***************************************************************************)
\* C22: GET /health is answered 200 with status 'healthy' whatever secrets
\* are configured and whatever credential the request carries, and the
\* session counts of the report are the number of sessions in the registry
\* when the reply is returned (0 when no session has been opened).
C22_HealthReportsRegistry ==
    [][/\ (Replies /\ reply'.method = "GET" /\ reply'.path = "/health")
            => /\ reply'.status = 200
               /\ reply'.auth = NotAsked
               /\ reply'.json.status = "healthy"
               /\ reply'.json.sse.stats.totalConnections
                      = Cardinality(DOMAIN connections')
               /\ reply'.json.sse.stats.activeConnections
                      = Cardinality(DOMAIN connections')
               /\ sinks = <<>> => reply'.json.sse.stats.totalConnections = 0
       /\ reply = NoReply => \A h \in RouteHeaders : ENABLED GetHealth(h)
      ]_vars

\* A report for a request without credential, with a secret configured and
\* a session in the registry.
C22_Witness ==
    /\ reply # NoReply
    /\ reply.method = "GET"
    /\ reply.path = "/health"
    /\ reply.request.header = <<>>
    /\ ConfiguredSecrets(env) # {}
    /\ reply.json.sse.stats.totalConnections = 1
    /\ Cardinality(DOMAIN connections) = 1

\* C28: the traffic that is not protected: OPTIONS on any path gets the
\* preflight reply without a call of the gate; GET on a path other than
\* /health, /sse and / gets 404; a method other than OPTIONS, GET and POST
\* gets 405; none of them dispatches a request or changes the registry.
C28_UnprotectedRouting ==
    [][Replies
         => /\ reply'.method = "OPTIONS"
                 => /\ reply'.status = 200
                    /\ reply'.json = CorsHeaders
                    /\ reply'.auth = NotAsked
                    /\ ~reply'.dispatched
                    /\ NoEffect
            /\ (reply'.method = "GET"
                  /\ reply'.path \notin {"/health", "/sse", "/"})
                 => /\ reply'.status = 404
                    /\ ~reply'.dispatched
                    /\ NoEffect
            /\ reply'.method \notin {"OPTIONS", "GET", "POST"}
                 => /\ reply'.status = 405
                    /\ ~reply'.dispatched
                    /\ NoEffect
      ]_vars

\* A preflight on the stream path was answered for a request without
\* credential, with a secret configured and a session open.
C28_Witness ==
    /\ reply # NoReply
    /\ reply.method = "OPTIONS"
    /\ reply.path = "/sse"
    /\ reply.request.header = <<>>
    /\ ConfiguredSecrets(env) # {}
    /\ DOMAIN connections # {}

\* C29: the number of sessions in the registry never exceeds the configured
\* maximum of concurrent connections, SSE_MAX_CONNECTIONS: a GET /sse that
\* arrives with the registry at the limit adds no session.
C29_SessionsWithinLimit ==
    Cardinality(DOMAIN connections) <= env.SSE_MAX_CONNECTIONS

(***************************************************************************)
(* Failures of the provider's fetch.                                       *)
(***************************************************************************)
\* C30: for every tool, a tools/call during which the provider's fetch fails
\* is answered with an error Response: no failure of the provider is
\* reported to the caller as a result.
C30_FetchFailureIsError ==
    (dispatchCall.done /\ CallsKnownTool(dispatchCall.request)
       /\ dispatchCall.fetch = "fails")
        => /\ ~dispatchCall.result.threw
           /\ Has(dispatchCall.result.response, "error")
           /\ ~Has(dispatchCall.result.response, "result")

(***************************************************************************)
(* The background passes run for ever: one stream, no request addressed to *)
(* it, a clock that does not stop, and the heartbeat pass and the sweep    *)
(* executed again and again.                                               *)
(***************************************************************************)
\* A timestamp seen one clock step later, at the end of the clock's window.
Earlier(t) == IF t >= ClockStep THEN t - ClockStep ELSE 0

\* Time passes, without end.  The manager reads timestamps only through
\* now - lastActivity: once the clock is at the end of its window, a step of
\* time moves every timestamp back instead of moving the clock on, and an
\* age beyond the window stays beyond it.
Elapse ==
    /\ reply = NoReply
    /\ IF now < MaxTicks * ClockStep
       THEN /\ now' = now + ClockStep
            /\ UNCHANGED connections
       ELSE /\ now' = now
            /\ connections' =
                   [id \in DOMAIN connections |->
                       [connections[id] EXCEPT
                           !.createdAt = Earlier(@),
                           !.lastActivity = Earlier(@)]]
    /\ UNCHANGED <<limiter, env, authCall, dispatchCall, sinks, handlers, reply>>

InitLive ==
    /\ env = StreamEnv
    /\ limiter = NoLimiter
    /\ authCall = NoAuthCall
    /\ dispatchCall = NoDispatchCall
    /\ ServerInit

NextLive ==
    \/ \E r \in RandDraws : GetSSE(StreamHeader, r, MaxRouteOpens)
    \/ \E k \in 1..Len(sinks), p \in BOOLEAN : ClientVanish(k, p)
    \/ \E k \in 1..Len(sinks) : WelcomeCatch(k)
    \/ Cleanup
    \/ \E f \in [DOMAIN connections -> WriteFailures] : Heartbeat(f)
    \/ Elapse
    \/ ReplyTaken

\* The clock runs, replies are taken and a pending rejection is handled;
\* the heartbeat pass and the sweep are executed whenever they have
\* something to do again and again.
SpecLive ==
    /\ InitLive
    /\ [][NextLive]_vars
    /\ WF_vars(Elapse)
    /\ WF_vars(ReplyTaken)
    /\ WF_vars(\E k \in 1..Len(sinks) : WelcomeCatch(k))
    /\ SF_vars(Cleanup)
    /\ SF_vars(HeartbeatPass)

\* Stream k is registered: its id resolves to its sink.
Registered(k) ==
    /\ k <= Len(sinks)
    /\ sinks[k].connectionId \in DOMAIN connections
    /\ connections[sinks[k].connectionId].controller = k

\* The client of stream k has gone without a clean disconnect, and the
\* session is still registered.
Vanished(k) ==
    /\ Registered(k)
    /\ sinks[k].state \in {"broken", "rejecting"}

\* C21: with the heartbeat pass and the sweep executed fairly, every session
\* whose client has vanished, and to which no request is addressed any more,
\* is eventually removed from the registry.
C21_VanishedEventuallyRemoved ==
    \A k \in 1..MaxRouteOpens : Vanished(k) ~> ~Registered(k)

(***************************************************************************)
(* Streaming disabled by configuration.                                    *)
(***************************************************************************)
\* C31: with SSE_ENABLED = 'false' the requests on the stream path open no
\* session and deliver no frame: the registry stays empty, and no sink
\* exists, in every reachable state.
C31_DisabledOpensNothing ==
    env.SSE_ENABLED = "false"
        => /\ DOMAIN connections = {}
           /\ sinks = <<>>

(***************************************************************************)
(* The rate limiter under concurrent calls.                                *)
(***************************************************************************)
\* The counter stored under the key (0 when nothing is stored).
StoredCount(key) ==
    IF key \in DOMAIN limiter.CACHE THEN parseInt(limiter.CACHE[key]) ELSE 0

RateLimitKeys == {getRateLimitKey(ip, now \div MinuteMs) : ip \in ClientIps}

\* C32: for each client IP and minute window, whatever the interleaving of
\* the gets and puts of concurrent checkLimit calls, at most 30 calls return
\* true and the stored counter is the number of calls that returned true.
C32_LimiterCountsAllowedCalls ==
    \A key \in RateLimitKeys :
        /\ AllowedFor(key) <= requestsPerMinute
        /\ StoredCount(key) = AllowedFor(key)

(***************************************************************************)
(* The health report and the registry.                                     *)
(***************************************************************************)
\* The worker returns the report of GET /health in this step.
HealthReplies ==
    Replies /\ reply'.method = "GET" /\ reply'.path = "/health"

\* C33: GET /health only reads the registry: handling it removes no session,
\* closes no sink and changes no session's lastActivity.
C33_HealthIsReadOnly ==
    [][HealthReplies => UNCHANGED <<connections, sinks>>]_vars

(***************************************************************************)
(* Frames and the sessions they belong to.                                 *)
(***************************************************************************)
\* Every 'connected' and every 'mcp-response' frame on a sink carries the
\* id of the session the sink was created for.
FramesOnOwnSink(ss) ==
    \A c \in 1..Len(ss) : \A i \in 1..Len(ss[c].frames) :
        ss[c].frames[i].event \in {"connected", "mcp-response"}
            => ss[c].frames[i].data.connectionId = ss[c].connectionId

Unaddressed(h) == ~(h.path = "/sse" /\ Addressed(h.body.value))

\* The Responses the dispatcher can return for the request on this path.
DirectResponses(path, request) ==
    {(IF path = "/sse" THEN processSSEMCPRequest(request, o)
      ELSE handleMCPRequestInternal(request, o)).response :
         o \in ProviderOutcomes}

SameSession(id) ==
    /\ id \in DOMAIN connections
    /\ id \in DOMAIN connections'
    /\ connections'[id].controller = connections[id].controller

\* C36: every session in the registry has lastActivity >= createdAt; its id
\* and createdAt never change once it is opened, and its lastActivity never
\* decreases (the clock does not go back).
C36_TimestampsMonotone ==
    [][/\ now' >= now
       /\ \A id \in DOMAIN connections' :
              /\ connections'[id].lastActivity >= connections'[id].createdAt
              /\ connections'[id].id = id
       /\ \A id \in DOMAIN connections :
              SameSession(id)
                  => /\ connections'[id].id = connections[id].id
                     /\ connections'[id].createdAt = connections[id].createdAt
                     /\ connections'[id].lastActivity
                            >= connections[id].lastActivity
      ]_vars

\* A session opened after the start of the clock has been active since.
C36_Witness ==
    \E id \in DOMAIN connections :
        /\ connections[id].createdAt > 0
        /\ connections[id].lastActivity > connections[id].createdAt

(***************************************************************************)
(* The two counts of the report.                                           *)
(***************************************************************************)
\* C37: in every /health report activeConnections equals totalConnections:
\* the sweep that precedes the count removes every session idle for more
\* than heartbeatInterval * 3, which is the window of the active count, so
\* every session left is inside the window.
C37_ActiveEqualsTotal ==
    [][(Replies /\ reply'.method = "GET" /\ reply'.path = "/health")
           => /\ IdleTimeout = StatsTimeout
              /\ reply'.json.sse.stats.activeConnections
                     = reply'.json.sse.stats.totalConnections
              /\ \A id \in DOMAIN connections' :
                     now' - connections'[id].lastActivity <= StatsTimeout
      ]_vars

\* A report that counts a session idle for exactly the window.
C37_Witness ==
    /\ reply # NoReply
    /\ reply.method = "GET"
    /\ reply.path = "/health"
    /\ reply.json.sse.stats.activeConnections = 1
    /\ reply.json.sse.stats.totalConnections = 1
    /\ \E id \in DOMAIN connections :
           now - connections[id].lastActivity = StatsTimeout

=============================================================================
